---- MODULE Spec2Model ----
(***************************************************************************)
(* Model of trytond-product_package (src/product.py).                      *)
(*                                                                         *)
(* The database is modelled as three tables: product.template (a set of    *)
(* ids), product.product (id -> template id) and product.package (id ->    *)
(* row).  Rows of the consumer models that register themselves in          *)
(* Package._create_package (e.g. sale lines) are kept in `lines`.          *)
(* Every operation runs in one transaction: when it raises, the tables     *)
(* are left as they were and only `last` records the call and its error.   *)
(***************************************************************************)
EXTENDS Integers, Sequences, FiniteSets, TLC

VARIABLES
    templates,  \* ids of the product.template rows
    products,   \* sequence: products[id] = id of the template of product id
    packages,   \* sequence: packages[id] = row of product.package id
    lines,      \* rows of consumer models: [model, product, product_package]
    registry,   \* models registered in Package._create_package by consumers
    last        \* the last call: [op, user, check, arg, result, out]

vars == <<templates, products, packages, lines, registry, last>>

-----------------------------------------------------------------------------
(* Bounds of the model: rows per table.  Quantities are integers here;     *)
(* the sign is all the code looks at.                                      *)

MaxPackages == 2
MaxTemplates == 3
MaxProducts == 3
MaxLines == 1

(* Literals *)

None == 0                       \* Python None / SQL NULL for ids and sequence
Models == {"sale.line"}         \* consumer models that may be installed
Names == {"box", "case"}
Range(s) == {s[i] : i \in DOMAIN s}

Get(d, k) == IF k \in DOMAIN d THEN d[k] ELSE None     \* dict.get(k)

-----------------------------------------------------------------------------
(* Package: field defaults and constraints *)

default_quantity == 1
default_is_default == TRUE

\* The row ModelSQL.create inserts for one dictionary of values.
NewRow(v) ==
    [template   |-> Get(v, "template"),
     product    |-> Get(v, "product"),
     name       |-> v["name"],
     quantity   |-> IF "quantity" \in DOMAIN v THEN v["quantity"]
                    ELSE default_quantity,
     is_default |-> IF "is_default" \in DOMAIN v THEN v["is_default"]
                    ELSE default_is_default,
     sequence   |-> Get(v, "sequence")]

\* domain [('quantity', '>', 0)] and Check(t, t.quantity > 0).
\* (variant: the bound is taken as inclusive)
MutQuantityOk(q) == q >= 0
quantity_greater_than_zero(q) == q > 0

-----------------------------------------------------------------------------
(* One2Many collections, in the order of sequence_ordered(): sequence      *)
(* ascending with NULL first, then id.                                     *)

Before(pk, i, j) ==
    \/ pk[i].sequence < pk[j].sequence
    \/ pk[i].sequence = pk[j].sequence /\ i < j

RECURSIVE Sorted(_, _)
Sorted(pk, S) ==
    IF S = {} THEN <<>>
    ELSE LET m == CHOOSE i \in S : \A j \in S \ {i} : Before(pk, i, j)
         IN <<m>> \o Sorted(pk, S \ {m})

\* Template.packages = One2Many('product.package', 'template')
Template_packages(pk, t) ==
    Sorted(pk, {i \in DOMAIN pk : pk[i].template = t})

\* Product.packages = One2Many('product.package', 'product')
Product_packages(pk, p) ==
    Sorted(pk, {i \in DOMAIN pk : pk[i].product = p})

-----------------------------------------------------------------------------
(* Package.validate (lines 120-147).  acc = [templates, products,          *)
(* is_unique] are the three locals of the method; the lists are only       *)
(* tested for membership, so they are kept as sets.                        *)

\* Inner loop over package.template.packages (lines 129-135).
RECURSIVE ScanTemplate(_, _, _)
ScanTemplate(pk, coll, acc) ==
    IF coll = <<>> THEN acc
    ELSE LET pack == pk[Head(coll)] IN
         IF pack.is_default
         THEN IF pack.template \in acc.templates
              THEN [acc EXCEPT !.is_unique = FALSE]                 \* break
              ELSE ScanTemplate(pk, Tail(coll),
                       [acc EXCEPT !.templates = @ \cup {pack.template}])
         ELSE ScanTemplate(pk, Tail(coll), acc)

\* (variant: the siblings of the product are not looked at)
MutScanProduct(pk, coll, acc) == acc

\* Inner loop over package.product.packages (lines 137-143).
RECURSIVE ScanProduct(_, _, _)
ScanProduct(pk, coll, acc) ==
    IF coll = <<>> THEN acc
    ELSE LET pack == pk[Head(coll)] IN
         IF pack.is_default
         THEN IF pack.product \in acc.products
              THEN [acc EXCEPT !.is_unique = FALSE]                 \* break
              ELSE ScanProduct(pk, Tail(coll),
                       [acc EXCEPT !.products = @ \cup {pack.product}])
         ELSE ScanProduct(pk, Tail(coll), acc)

\* Outer loop over the packages handed to validate (lines 126-143).
RECURSIVE ValidateLoop(_, _, _)
ValidateLoop(pk, batch, acc) ==
    IF batch = <<>> THEN acc
    ELSE LET package == pk[Head(batch)]
             a1 == IF package.is_default /\ package.template # None
                   THEN ScanTemplate(pk,
                            Template_packages(pk, package.template), acc)
                   ELSE acc
             a2 == IF package.is_default /\ package.product # None
                   THEN ScanProduct(pk,
                            Product_packages(pk, package.product), a1)
                   ELSE a1
         IN ValidateLoop(pk, Tail(batch), a2)

\* TRUE when validate returns, FALSE when it raises msg_is_default_unique.
validate(pk, batch) ==
    ValidateLoop(pk, batch,
        [templates |-> {}, products |-> {}, is_unique |-> TRUE]).is_unique

-----------------------------------------------------------------------------
(* check_new_package (lines 16-48): the guard around Package.create.       *)

Privileged(user, check) == ~(user # 0 /\ check)          \* lines 37 and 57

\* (variant: the clause on product.template is left out)
MutFindPackages(model, ids) ==
    \E l \in lines :
        l.model = model /\ l.product \in ids /\ l.product_package = None

\* The search of lines 21-27 on one consumer model; ids are template ids
\* or product ids, as the caller passes them.
find_packages(model, ids) ==
    \E l \in lines :
        /\ l.model = model
        /\ (products[l.product] \in ids \/ l.product \in ids)
        /\ l.product_package = None

\* TRUE when the decorator raises AccessError (lines 36-46).
check_new_package(vlist, user, check) ==
    /\ ~Privileged(user, check)
    /\ LET tmpls == {Get(vlist[i], "template") : i \in DOMAIN vlist} \ {None}
           prods == {Get(vlist[i], "product") : i \in DOMAIN vlist} \ {None}
       IN \E model \in registry :
              find_packages(model, prods) \/ find_packages(model, tmpls)

-----------------------------------------------------------------------------
(* check_no_package (lines 50-67): the guard around Package.write.         *)

\* cls._modify_no_package (lines 92-94), the protected fields.
modify_no_package == <<"quantity">>

\* Package.find_packages (lines 159-161) returns False; it is the hook the
\* registered consumer models extend to look for their rows that name one
\* of the records.
Package_find_packages(records) ==
    \E l \in lines :
        l.model \in registry /\ l.product_package \in Range(records)

\* The loop of lines 60-65 on one (records, values) pair: TRUE when it
\* raises.
RECURSIVE FieldLoop(_, _, _)
FieldLoop(fields, records, values) ==
    IF fields = <<>> THEN FALSE
    ELSE IF Head(fields) \in DOMAIN values
         THEN Package_find_packages(records)          \* raise, or break
         ELSE FieldLoop(Tail(fields), records, values)

\* (variant: only the first pair is looked at)
MutCheckNoPackage(args, user, check) ==
    /\ ~Privileged(user, check)
    /\ FieldLoop(modify_no_package, args[1].records, args[1].values)

\* TRUE when the decorator raises AccessError (lines 56-65); args is the
\* sequence of (records, values) pairs.
check_no_package(args, user, check) ==
    /\ ~Privileged(user, check)
    /\ \E i \in DOMAIN args :
           FieldLoop(modify_no_package, args[i].records, args[i].values)

-----------------------------------------------------------------------------
(* What the properties need to know about a call, told apart from how the  *)
(* code decides it.                                                        *)

\* Some owner has two packages flagged default among those attached to it.
SiblingDefaults(pk) ==
    \E i, j \in DOMAIN pk :
        /\ i # j /\ pk[i].is_default /\ pk[j].is_default
        /\ \/ pk[i].template # None /\ pk[i].template = pk[j].template
           \/ pk[i].product # None /\ pk[i].product = pk[j].product

NonPositive(pk, ids) == \E i \in ids : pk[i].quantity <= 0

\* The rows of registered consumer models that reference a product or a
\* template named in vlist.
ReferencingLines(vlist) ==
    {l \in lines :
        /\ l.model \in registry
        /\ \E i \in DOMAIN vlist :
               \/ Get(vlist[i], "product") = l.product
               \/ Get(vlist[i], "template") = products[l.product]}

Call(op, user, check, arg, result, out) ==
    [op |-> op, user |-> user, check |-> check, arg |-> arg,
     result |-> result, out |-> out]

-----------------------------------------------------------------------------
(* Package.create (lines 149-152) and Package.write (lines 154-157).       *)

\* ModelSQL.create under the decorator: the rows are inserted (the SQL
\* check on quantity fires at the insert), then validated.  A call that
\* raises leaves the table as it was.
CreateResult(pk, vlist, user, check) ==
    LET rows == [i \in DOMAIN vlist |-> NewRow(vlist[i])]
        pk2 == pk \o rows
        ids == [i \in DOMAIN vlist |-> Len(pk) + i]
    IN IF check_new_package(vlist, user, check)
       THEN [error |-> "AccessError", pk |-> pk, ids |-> <<>>]
       ELSE IF \E i \in DOMAIN rows :
                   ~quantity_greater_than_zero(rows[i].quantity)
       THEN [error |-> "quantity_greater_than_zero", pk |-> pk, ids |-> <<>>]
       ELSE IF ~validate(pk2, ids)
       THEN [error |-> "msg_is_default_unique", pk |-> pk, ids |-> <<>>]
       ELSE [error |-> "ok", pk |-> pk2, ids |-> ids]

Create(vlist, user, check) ==
    LET r == CreateResult(packages, vlist, user, check)
        attempt == packages \o [i \in DOMAIN vlist |-> NewRow(vlist[i])]
        refs == ReferencingLines(vlist)
    IN /\ Len(packages) + Len(vlist) <= MaxPackages
       /\ packages' = r.pk
       /\ last' = Call("create", user, check,
               [referenced |-> refs # {},
                unpackaged |-> \E l \in refs : l.product_package = None,
                nonpositive |-> NonPositive(attempt, DOMAIN attempt),
                siblings |-> SiblingDefaults(attempt)],
               r.error, r.ids)
       /\ UNCHANGED <<templates, products, lines, registry>>

\* ModelSQL.write applies the (records, values) pairs in order.
RECURSIVE ApplyWrite(_, _)
ApplyWrite(pk, args) ==
    IF args = <<>> THEN pk
    ELSE LET records == Range(Head(args).records)
             values == Head(args).values
             pk2 == [i \in DOMAIN pk |->
                        IF i \in records
                        THEN [f \in DOMAIN pk[i] |->
                                 IF f \in DOMAIN values THEN values[f]
                                 ELSE pk[i][f]]
                        ELSE pk[i]]
         IN ApplyWrite(pk2, Tail(args))

\* all_records of ModelSQL.write: the records of every pair, concatenated.
RECURSIVE AllRecords(_)
AllRecords(args) ==
    IF args = <<>> THEN <<>>
    ELSE Head(args).records \o AllRecords(Tail(args))

WriteResult(args, user, check) ==
    LET pk2 == ApplyWrite(packages, args)
        all == AllRecords(args)
    IN IF check_no_package(args, user, check)
       THEN [error |-> "AccessError", pk |-> packages]
       ELSE IF \E i \in Range(all) :
                   ~quantity_greater_than_zero(pk2[i].quantity)
       THEN [error |-> "quantity_greater_than_zero", pk |-> packages]
       ELSE IF ~validate(pk2, all)
       THEN [error |-> "msg_is_default_unique", pk |-> packages]
       ELSE [error |-> "ok", pk |-> pk2]

Write(args, user, check) ==
    LET r == WriteResult(args, user, check)
        attempt == ApplyWrite(packages, args)
    IN /\ packages' = r.pk
       /\ last' = Call("write", user, check,
               [fields |-> UNION {DOMAIN args[i].values : i \in DOMAIN args},
                referenced |-> \E i \in DOMAIN args :
                    /\ "quantity" \in DOMAIN args[i].values
                    /\ Package_find_packages(args[i].records),
                nonpositive |-> NonPositive(attempt, DOMAIN attempt),
                siblings |-> SiblingDefaults(attempt)],
               r.error, <<>>)
       /\ UNCHANGED <<templates, products, lines, registry>>

-----------------------------------------------------------------------------
(* A consumer model (a sale line, ...) stores a row that names a product   *)
(* and, optionally, one of the packages.                                   *)

ConsumerCreate(model, product, package) ==
    /\ Cardinality(lines) < MaxLines
    /\ lines' = lines \cup {[model |-> model, product |-> product,
                             product_package |-> package]}
    /\ last' = Call("consumer", 0, FALSE, <<>>, "ok", <<>>)
    /\ UNCHANGED <<templates, products, packages, registry>>

-----------------------------------------------------------------------------
(* ModelStorage.copy of packages: every field of the source row is read,   *)
(* the fields named in default are replaced, and the rows go through       *)
(* Package.create.                                                         *)

CopyData(row, default) ==
    [f \in DOMAIN row |-> IF f \in DOMAIN default THEN default[f] ELSE row[f]]

-----------------------------------------------------------------------------
(* Template.copy (lines 184-207) *)

\* old2new after the loop of lines 199-202: a later entry of the list
\* overwrites an earlier one for the same template.
Old2New(tlist, new_templates) ==
    [t \in Range(tlist) |->
        new_templates[CHOOSE i \in DOMAIN tlist :
            tlist[i] = t /\ \A j \in DOMAIN tlist : tlist[j] = t => j <= i]]

\* to_copy after the loop: for each entry of the list, the packages of the
\* template that have no product.
RECURSIVE ToCopy(_, _)
ToCopy(pk, tlist) ==
    IF tlist = <<>> THEN <<>>
    ELSE SelectSeq(Template_packages(pk, Head(tlist)),
                   LAMBDA i : pk[i].product = None)
         \o ToCopy(pk, Tail(tlist))

TemplateCopyResult(tlist, override, user, check) ==
    LET n == Cardinality(templates)
        new_templates == [i \in DOMAIN tlist |-> n + i]
        to_copy == ToCopy(packages, tlist)
        old2new == Old2New(tlist, new_templates)
        vlist == [k \in DOMAIN to_copy |->
                     CopyData(packages[to_copy[k]],
                         "template" :> old2new[packages[to_copy[k]].template])]
        r == CreateResult(packages, vlist, user, check)
    IN IF override \/ to_copy = <<>>
       THEN [error |-> "ok", pk |-> packages, new |-> new_templates]
       ELSE IF r.error # "ok"
       THEN [error |-> r.error, pk |-> packages, new |-> <<>>]
       ELSE [error |-> "ok", pk |-> r.pk, new |-> new_templates]

\* override: the caller's default holds the key 'packages' (with None).
TemplateCopy(tlist, override, user, check) ==
    LET r == TemplateCopyResult(tlist, override, user, check) IN
    /\ Cardinality(templates) + Len(tlist) <= MaxTemplates
    /\ Len(packages) + Len(ToCopy(packages, tlist)) <= MaxPackages
    /\ packages' = r.pk
    /\ templates' = templates \cup Range(r.new)
    /\ last' = Call("template_copy", user, check,
                    [sources |-> tlist, override |-> override],
                    r.error, r.new)
    /\ UNCHANGED <<products, lines, registry>>

-----------------------------------------------------------------------------
(* Product.copy (lines 246-273).  keys are the keys of the caller's        *)
(* default, among 'product' and 'packages' (given with None).              *)

\* super().copy when default holds no 'packages': the One2Many is copied,
\* product by product, by Package.copy(product.packages,
\* {'product': new id}).
RECURSIVE CopyOne2Many(_, _, _, _, _)
CopyOne2Many(pk, plist, new_products, user, check) ==
    IF plist = <<>> THEN [error |-> "ok", pk |-> pk]
    ELSE LET source == Product_packages(pk, Head(plist))
             vlist == [k \in DOMAIN source |->
                          CopyData(pk[source[k]],
                                   "product" :> Head(new_products))]
             r == CreateResult(pk, vlist, user, check)
         IN IF source = <<>>
            THEN CopyOne2Many(pk, Tail(plist), Tail(new_products),
                              user, check)
            ELSE IF r.error # "ok" THEN [error |-> r.error, pk |-> pk]
            ELSE CopyOne2Many(r.pk, Tail(plist), Tail(new_products),
                              user, check)

ProductCopyResult(plist, keys, user, check) ==
    LET n == Len(products)
        new_products == [i \in DOMAIN plist |-> n + i]
        copy_packages == "packages" \notin keys                  \* line 255
        keys2 == IF "product" \in keys THEN keys \cup {"packages"}
                 ELSE keys                                  \* lines 256-257
        r == IF "packages" \in keys2
             THEN [error |-> "ok", pk |-> packages]
             ELSE CopyOne2Many(packages, plist, new_products, user, check)
    IN IF r.error # "ok"
       THEN [error |-> r.error, pk |-> packages, new |-> <<>>]
       ELSE IF "product" \in keys /\ copy_packages
       \* line 263 reads the loop variable `product` before it is bound
       THEN [error |-> "UnboundLocalError", pk |-> packages, new |-> <<>>]
       ELSE [error |-> "ok", pk |-> r.pk, new |-> new_products]

ProductCopy(plist, keys, user, check) ==
    LET r == ProductCopyResult(plist, keys, user, check)
        copies == Cardinality({i \in DOMAIN packages :
                                  packages[i].product \in Range(plist)})
    IN /\ Len(products) + Len(plist) <= MaxProducts
       /\ Len(packages) + copies <= MaxPackages
       /\ packages' = r.pk
       /\ products' = products \o [i \in DOMAIN r.new |-> products[plist[i]]]
       /\ last' = Call("product_copy", user, check,
                       [sources |-> plist, keys |-> keys,
                        had_packages |-> copies > 0],
                       r.error, r.new)
       /\ UNCHANGED <<templates, lines, registry>>

-----------------------------------------------------------------------------
(* get_default_package (lines 176-182 and 238-244) *)

\* for package in self.packages: if package.is_default: return package
\* else: return self.packages[0]
RECURSIVE DefaultLoop(_, _, _)
DefaultLoop(pk, rest, coll) ==
    IF rest = <<>> THEN coll[1]
    ELSE IF pk[Head(rest)].is_default THEN Head(rest)
    ELSE DefaultLoop(pk, Tail(rest), coll)

\* (variant: falls back on the last package of the collection)
MutGetDefaultPackage(pk, coll) ==
    IF coll = <<>> THEN None
    ELSE IF \E k \in DOMAIN coll : pk[coll[k]].is_default
    THEN DefaultLoop(pk, coll, coll)
    ELSE coll[Len(coll)]

get_default_package(pk, coll) ==
    IF coll # <<>> THEN DefaultLoop(pk, coll, coll) ELSE None

Template_get_default_package(pk, t) ==
    get_default_package(pk, Template_packages(pk, t))

Product_get_default_package(pk, p) ==
    get_default_package(pk, Product_packages(pk, p))

-----------------------------------------------------------------------------
(* package_used (lines 209-215 and 275-283) *)

Nullable == {"template", "product", "sequence"}

\* package.match(pattern): a field of the record that is None matches any
\* value; another field must equal the value of the pattern.
match(row, pattern) ==
    \A f \in DOMAIN pattern :
        \/ f \in Nullable /\ row[f] = None
        \/ row[f] = pattern[f]

Template_package_used(pk, t, pattern) ==
    SelectSeq(Template_packages(pk, t), LAMBDA i : match(pk[i], pattern))

\* (variant: the pattern is handed to the template as it came)
MutProductPackageUsed(pk, p, pattern) ==
    SelectSeq(Product_packages(pk, p), LAMBDA i : match(pk[i], pattern))
    \o Template_package_used(pk, products[p], pattern)

Product_package_used(pk, p, pattern) ==
    SelectSeq(Product_packages(pk, p), LAMBDA i : match(pk[i], pattern))
    \o Template_package_used(pk, products[p],
                             ("product" :> None) @@ pattern)

-----------------------------------------------------------------------------
(* Calls that read the tables *)

Query(op, arg, result, out) ==
    /\ last' = Call(op, 1, TRUE, arg, result, out)
    /\ UNCHANGED <<templates, products, packages, lines, registry>>

TemplateGetDefaultPackage(t) ==
    Query("Template.get_default_package", t, "ok",
          Template_get_default_package(packages, t))

ProductGetDefaultPackage(p) ==
    Query("Product.get_default_package", p, "ok",
          Product_get_default_package(packages, p))

TemplatePackageUsed(t, pattern) ==
    Query("Template.package_used", [template |-> t, pattern |-> pattern],
          "ok", Template_package_used(packages, t, pattern))

ProductPackageUsed(p, pattern) ==
    Query("Product.package_used", [product |-> p, pattern |-> pattern],
          "ok", Product_package_used(packages, p, pattern))

Validate(batch) ==
    Query("validate", batch,
          IF validate(packages, batch) THEN "ok"
          ELSE "msg_is_default_unique", <<>>)

-----------------------------------------------------------------------------
(* Inputs *)

Optional(key, S) == {<<>>} \cup {key :> x : x \in S}

Pair(records, values) == [records |-> records, values |-> values]

RecordLists ==
    {<<i>> : i \in DOMAIN packages}
    \cup {<<ij[1], ij[2]>> :
             ij \in {x \in (DOMAIN packages) \X (DOMAIN packages) :
                        x[1] < x[2]}}

Owners ==
    {"template" :> 1, "product" :> 1,
     ("template" :> 1) @@ ("product" :> 1)}

\* Spec: the default flag and the owners
DefaultValues ==
    {o @@ ("name" :> "box") @@ d :
        o \in Owners, d \in Optional("is_default", {FALSE})}

DefaultVLists ==
    {<<v>> : v \in DefaultValues}
    \cup {<<v, v>> : v \in DefaultValues}

DefaultWriteValues ==
    {"is_default" :> b : b \in BOOLEAN}
    \cup {"template" :> t : t \in templates}
    \cup {"product" :> p : p \in {None, 1}}

DefaultWriteArgs ==
    {<<Pair(r, v)>> : r \in RecordLists, v \in DefaultWriteValues}
    \cup {<<Pair(<<i>>, "is_default" :> TRUE),
            Pair(<<j>>, "is_default" :> TRUE)>> :
             i \in DOMAIN packages, j \in DOMAIN packages}

TemplateLists ==
    {<<t>> : t \in templates} \cup {<<t, u>> : t \in templates, u \in templates}

ProductLists == {<<p>> : p \in DOMAIN products}

-----------------------------------------------------------------------------

(* Spec: this module alone (no consumer model registered), one template    *)
(* with two variants, an ordinary user with access checking.               *)

NoCall == Call("init", 0, FALSE, <<>>, "ok", <<>>)

Init ==
    /\ templates = {1}
    /\ products = <<1, 1>>
    /\ packages = <<>>
    /\ lines = {}
    /\ registry = {}
    /\ last = NoCall

Next ==
    \/ \E vlist \in DefaultVLists : Create(vlist, 1, TRUE)
    \/ \E args \in DefaultWriteArgs : Write(args, 1, TRUE)
    \/ \E tlist \in TemplateLists, override \in BOOLEAN :
           TemplateCopy(tlist, override, 1, TRUE)
    \/ \E plist \in ProductLists, keys \in SUBSET {"product", "packages"} :
           ProductCopy(plist, keys, 1, TRUE)

Spec == Init /\ [][Next]_vars

-----------------------------------------------------------------------------
(* SpecGuard: the access guards and the quantity constraint, with a        *)
(* consumer model installed.                                               *)

\* (user, _check_access) of the transaction
Contexts == {<<1, TRUE>>, <<0, TRUE>>, <<1, FALSE>>}

GuardOwners == {"template" :> 1, "template" :> 2, "product" :> 1}

GuardVLists ==
    {<<o @@ ("name" :> "box") @@ ("is_default" :> FALSE) @@ q>> :
        o \in GuardOwners, q \in Optional("quantity", {-1, 0})}
    \cup {<<o @@ ("name" :> "box") @@ ("is_default" :> FALSE),
            o2 @@ ("name" :> "box") @@ ("is_default" :> FALSE)>> :
             o \in GuardOwners, o2 \in GuardOwners}

GuardWriteValues ==
    {"name" :> "case", "quantity" :> 2, "quantity" :> 0,
     ("name" :> "case") @@ ("quantity" :> 2)}

GuardWriteArgs ==
    {<<Pair(r, v)>> : r \in RecordLists, v \in GuardWriteValues}
    \cup {<<Pair(<<i>>, "name" :> "case"), Pair(<<j>>, "quantity" :> 2)>> :
             i \in DOMAIN packages, j \in DOMAIN packages}

InitGuard ==
    /\ templates = {1, 2}
    /\ products = <<1, 1>>
    /\ packages = <<>>
    /\ lines = {}
    /\ registry \in SUBSET Models
    /\ last = NoCall

NextGuard ==
    \/ \E vlist \in GuardVLists, c \in Contexts : Create(vlist, c[1], c[2])
    \/ \E args \in GuardWriteArgs, c \in Contexts : Write(args, c[1], c[2])
    \/ \E m \in Models, p \in DOMAIN products,
          k \in DOMAIN packages \cup {None} : ConsumerCreate(m, p, k)

SpecGuard == InitGuard /\ [][NextGuard]_vars

-----------------------------------------------------------------------------
(* SpecCopy: duplication of templates with a consumer model installed.     *)

CopyVLists ==
    {<<o @@ ("name" :> n) @@ d>> :
        o \in Owners, n \in Names, d \in Optional("is_default", {FALSE})}

NextCopy ==
    \/ \E vlist \in CopyVLists : Create(vlist, 0, TRUE)
    \/ \E m \in Models, p \in DOMAIN products,
          k \in DOMAIN packages \cup {None} : ConsumerCreate(m, p, k)
    \/ \E t \in templates, override \in BOOLEAN, c \in Contexts :
           TemplateCopy(<<t>>, override, c[1], c[2])

InitCopy ==
    /\ templates = {1}
    /\ products = <<1, 1>>
    /\ packages = <<>>
    /\ lines = {}
    /\ registry \in SUBSET Models
    /\ last = NoCall

SpecCopy == InitCopy /\ [][NextCopy]_vars

-----------------------------------------------------------------------------
(* SpecQuery: the methods that read the tables, applied to every table of  *)
(* at most MaxPackages valid rows.                                         *)

QueryRows ==
    {r \in [template : {None, 1}, product : {None, 1}, name : Names,
            quantity : {default_quantity}, is_default : BOOLEAN,
            sequence : {None, 1}] :
        r.template # None \/ r.product # None}

QueryTables ==
    {pk \in UNION {[1..n -> QueryRows] : n \in 0..MaxPackages} :
        ~SiblingDefaults(pk)}

Patterns ==
    {<<>>, "name" :> "box", "name" :> "case", "is_default" :> TRUE,
     ("name" :> "box") @@ ("is_default" :> FALSE)}

Batches ==
    {<<i>> : i \in DOMAIN packages}
    \cup {<<i, j>> : i \in DOMAIN packages, j \in DOMAIN packages}

InitQuery ==
    /\ templates = {1}
    /\ products = <<1, 1>>
    /\ packages \in QueryTables
    /\ lines = {}
    /\ registry = {}
    /\ last = NoCall

NextQuery ==
    \/ \E t \in templates : TemplateGetDefaultPackage(t)
    \/ \E p \in DOMAIN products : ProductGetDefaultPackage(p)
    \/ \E t \in templates, pattern \in Patterns :
           TemplatePackageUsed(t, pattern)
    \/ \E p \in DOMAIN products, pattern \in Patterns :
           ProductPackageUsed(p, pattern)
    \/ \E batch \in Batches : Validate(batch)

SpecQuery == InitQuery /\ [][NextQuery]_vars

-----------------------------------------------------------------------------
(* Properties *)

Guarded == last.user # 0 /\ last.check

\* C1: after any sequence of creates, writes and duplications no template
\* and no product has two packages flagged default among the packages
\* attached to it; a create or write that would leave two sibling defaults
\* is rejected, with msg_is_default_unique unless the access guard or the
\* quantity constraint rejects it first.
C1_DefaultUnique ==
    /\ ~SiblingDefaults(packages)
    /\ (last.op \in {"create", "write"} /\ last.arg.siblings) =>
           /\ last.result # "ok"
           /\ (~last.arg.nonpositive /\ last.result # "AccessError")
                  => last.result = "msg_is_default_unique"

\* A write that moves a default package to an owner that has one already
\* was rejected.
C1_Witness ==
    /\ last.op = "write"
    /\ last.arg.fields \cap {"template", "product"} # {}
    /\ last.arg.siblings
    /\ last.result = "msg_is_default_unique"

QuantityPositive == \A i \in DOMAIN packages : packages[i].quantity > 0

C2_Step ==
    (last'.op \in {"create", "write"} /\ last'.arg.nonpositive) =>
        (last'.result # "ok" /\ packages' = packages)

\* C2: every stored package has quantity > 0, and a create or write whose
\* resulting quantity is <= 0 is rejected and leaves the packages as they
\* were.
C2_Quantity == []QuantityPositive /\ [][C2_Step]_vars

\* A write of a quantity <= 0 on a stored package was rejected by the
\* constraint.
C2_Witness ==
    /\ last.op = "write"
    /\ last.arg.nonpositive
    /\ last.result = "quantity_greater_than_zero"
    /\ packages # <<>>

ExpectedDefault(S, r) ==
    IF \E d \in S : packages[d].is_default
    THEN /\ r \in S /\ packages[r].is_default
         /\ \A d \in S \ {r} : packages[d].is_default => Before(packages, r, d)
    ELSE IF S # {}
    THEN r \in S /\ \A o \in S \ {r} : Before(packages, r, o)
    ELSE r = None

\* C3: get_default_package of a template or a product returns the first
\* package of the collection flagged default, else the first package of
\* the collection, else nothing.
C3_DefaultPackage ==
    /\ last.op = "Template.get_default_package" =>
           ExpectedDefault({i \in DOMAIN packages :
                               packages[i].template = last.arg}, last.out)
    /\ last.op = "Product.get_default_package" =>
           ExpectedDefault({i \in DOMAIN packages :
                               packages[i].product = last.arg}, last.out)

\* The default package is returned although it is the later one, by id and
\* in the collection.
C3_Witness ==
    /\ last.op = "Product.get_default_package"
    /\ Len(packages) = 2
    /\ packages[1].product = last.arg /\ packages[2].product = last.arg
    /\ packages[1].sequence = packages[2].sequence
    /\ packages[2].is_default
    /\ last.out = 2

\* C4 as claimed: for a non-privileged user with access checking, a create
\* that names a template or product referenced by any row of a registered
\* consumer model fails with AccessError.
C4_AnyReference ==
    (last.op = "create" /\ Guarded /\ last.arg.referenced) =>
        last.result = "AccessError"

C4_Step ==
    (/\ last'.op = "create"
     /\ last'.user # 0 /\ last'.check
     /\ last'.arg.unpackaged) =>
        (last'.result = "AccessError" /\ packages' = packages)

\* C4 as amended: for a non-privileged user with access checking, a create
\* that names a template or product referenced by a row of a registered
\* consumer model that has no product_package fails with AccessError and
\* creates nothing.
C4_UnpackagedReference == [][C4_Step]_vars

\* A guarded create naming a referenced template was refused.
C4_Witness ==
    /\ last.op = "create" /\ Guarded
    /\ last.arg.unpackaged
    /\ last.result = "AccessError"

\* C5: a create for a product or template that no row of a registered
\* consumer model references is not rejected by the access guard.
C5_Unreferenced ==
    (last.op = "create" /\ ~last.arg.referenced) =>
        last.result # "AccessError"

C6_Step ==
    last'.op = "write" =>
        /\ (last'.user # 0 /\ last'.check /\ last'.arg.referenced) =>
               (last'.result = "AccessError" /\ packages' = packages)
        /\ last'.arg.fields = {"name"} => last'.result # "AccessError"

\* C6: for a non-privileged user with access checking, a write in which a
\* pair changes quantity on packages that find_packages reports fails with
\* AccessError before any pair is applied; a write of name alone is never
\* rejected by the guard.
C6_WriteGuard == [][C6_Step]_vars

\* A guarded write of quantity on a referenced package was refused.
C6_Witness ==
    /\ last.op = "write" /\ Guarded
    /\ last.arg.referenced
    /\ last.arg.fields = {"name", "quantity"}
    /\ last.result = "AccessError"

C7_Step ==
    (last'.op = "template_copy" /\ ~last'.arg.override) =>
        /\ last'.result = "ok"
        /\ \A k \in DOMAIN packages : packages'[k] = packages[k]
        /\ \A i \in DOMAIN last'.arg.sources :
               LET src == SelectSeq(
                       Template_packages(packages, last'.arg.sources[i]),
                       LAMBDA k : packages[k].product = None)
                   new == Template_packages(packages', last'.out[i])
               IN /\ Len(new) = Len(src)
                  /\ \A k \in DOMAIN new :
                         /\ new[k] \notin DOMAIN packages
                         /\ packages'[new[k]].name = packages[src[k]].name
                         /\ packages'[new[k]].quantity
                                = packages[src[k]].quantity
                         /\ packages'[new[k]].is_default
                                = packages[src[k]].is_default

\* C7: Template.copy without a 'packages' override yields, for each source
\* template, a new template whose packages are new records with the name,
\* quantity and is_default of the source's packages that have no product,
\* attached to the new template; the source's packages are unchanged.
C7_TemplateCopy == [][C7_Step]_vars

\* C8: Product.copy of a product that has packages, without a 'packages'
\* override, completes, and the copies of its packages reference the new
\* product and the new product's template.
C8_ProductCopy ==
    (/\ last.op = "product_copy"
     /\ last.arg.had_packages
     /\ "packages" \notin last.arg.keys) =>
        /\ last.result = "ok"
        /\ \A i \in DOMAIN last.arg.sources :
               LET src == Product_packages(packages, last.arg.sources[i])
                   new == Product_packages(packages, last.out[i])
               IN /\ Len(new) = Len(src)
                  /\ \A k \in DOMAIN new :
                         packages[new[k]].template = products[last.out[i]]

\* The rows Product.package_used is asked for, read off the tables.
Matches(i, pattern) == \A f \in DOMAIN pattern : packages[i][f] = pattern[f]

VariantMatches ==
    {i \in DOMAIN packages :
        packages[i].product = last.arg.product
        /\ Matches(i, last.arg.pattern)}

TemplateMatches ==
    {i \in DOMAIN packages :
        /\ packages[i].template = products[last.arg.product]
        /\ packages[i].product = None
        /\ Matches(i, last.arg.pattern)}

InOrder(s) ==
    \A a, b \in DOMAIN s : a < b => Before(packages, s[a], s[b])

\* C9 as claimed: Product.package_used yields packages of the template only
\* if no package of the product matched.
C9_TemplateOnlyAsFallback ==
    last.op = "Product.package_used" =>
        (VariantMatches # {} =>
            \A k \in DOMAIN last.out : last.out[k] \in VariantMatches)

\* C9 as amended: Product.package_used yields the matching packages of the
\* product, then the matching packages of its template that have no
\* product, whether or not a package of the product matched.
C9_PackageUsed ==
    last.op = "Product.package_used" =>
        LET n == Cardinality(VariantMatches) IN
        /\ Len(last.out) = n + Cardinality(TemplateMatches)
        /\ {last.out[k] : k \in 1..n} = VariantMatches
        /\ {last.out[k] : k \in (n + 1)..Len(last.out)} = TemplateMatches
        /\ InOrder(SubSeq(last.out, 1, n))
        /\ InOrder(SubSeq(last.out, n + 1, Len(last.out)))

\* A package of the product matched and a package of the template was
\* yielded after it.
C9_Witness ==
    /\ last.op = "Product.package_used"
    /\ VariantMatches # {}
    /\ TemplateMatches # {}
    /\ Len(last.out) = 2

\* C10: validate raises msg_is_default_unique only if some template or
\* product has two distinct packages flagged default.
C10_NoFalseAlarm ==
    (last.op = "validate" /\ ~SiblingDefaults(packages)) =>
        last.result = "ok"

====
